---- MODULE Spec2Model ----
(***************************************************************************)
(* btrsnap: create, delete, list and prune btrfs snapshots kept as the     *)
(* immediate children of one snapshot directory.                           *)
(*                                                                         *)
(* A string is a sequence of one-character strings, so that formatting,    *)
(* prefix stripping and integer parsing are computed, not assumed.         *)
(* An Option is a sequence of length 0 (None) or 1 (Some).                 *)
(***************************************************************************)
EXTENDS Integers, Sequences, FiniteSets, TLC

VARIABLES
    fs,       \* the snapshot directory: entry name -> [kind, mtime, ignore]
    now,      \* the wall clock, in seconds
    pc,       \* "idle" | "run" | "done": where the process is
    cmd,      \* "none" | "create" | "delete" | "list" | "cleanup": the subcommand
    impl,     \* which cleanup_snapshot runs: "main" (main.rs) | "module" (cleanup.rs)
    args,     \* the list the subcommand's loop iterates over
    idx,      \* the loop's position in args (1-based)
    ts,       \* Create's captured timestamp
    cutoff,   \* Cleanup's cutoff instant
    result,   \* "none" | "ok" | "err": what execute returned
    calls,    \* Volume Store, file and println! calls of this invocation, in order
    scanned,  \* the directory as it was when this Cleanup's or List's scan began
    sweep     \* None, or Some of the interrupted sweep [base, cutoff, impl]

vars == <<fs, now, pc, cmd, impl, args, idx, ts, cutoff, result, calls, scanned, sweep>>

---------------------------------------------------------------------------
(* Bounds of the model *)

\* most entries the snapshot directory holds
MaxEntries == 3
\* most paths on one command line
MaxArgs == 3
\* the clock's first and last value
StartNow == 20
MaxNow == 21
\* the retention of the longer of the two --keep values
LongKeep == 4
\* the last second chrono's DateTime can represent, scaled down from about
\* 8.2e12 so that a three-digit timestamp is out of range
MaxChronoSecs == 99

---------------------------------------------------------------------------
(* Options and strings *)

None == <<>>

Some(v) == <<v>>

Digit == <<"0", "1", "2", "3", "4", "5", "6", "7", "8", "9">>

DigitChars == {Digit[i] : i \in 1..10}

DigitVal(c) == (CHOOSE i \in 1..10 : Digit[i] = c) - 1

RECURSIVE FmtNat(_)
FmtNat(n) ==
    IF n < 10 THEN <<Digit[n + 1]>>
    ELSE FmtNat(n \div 10) \o <<Digit[(n % 10) + 1]>>

\* Display of an i64, as format!("{}", ts) prints it
to_string(n) == IF n < 0 THEN <<"-">> \o FmtNat(-n) ELSE FmtNat(n)

RECURSIVE DigitsVal(_)
DigitsVal(s) ==
    IF s = <<>> THEN 0
    ELSE DigitsVal(SubSeq(s, 1, Len(s) - 1)) * 10 + DigitVal(s[Len(s)])

IsDigits(s) == Len(s) > 0 /\ \A i \in 1..Len(s) : s[i] \in DigitChars

\* str::parse::<i64>().ok(): an optional sign, then one or more digits
\* (every name of the model is short enough not to overflow).
parse_i64(s) ==
    IF s = <<>> THEN None
    ELSE IF s[1] \in {"+", "-"}
         THEN IF IsDigits(Tail(s))
              THEN Some(IF s[1] = "-" THEN -DigitsVal(Tail(s)) ELSE DigitsVal(Tail(s)))
              ELSE None
         ELSE IF IsDigits(s) THEN Some(DigitsVal(s)) ELSE None

\* str::strip_prefix
strip_prefix(s, p) ==
    IF Len(s) >= Len(p) /\ SubSeq(s, 1, Len(p)) = p
    THEN Some(SubSeq(s, Len(p) + 1, Len(s)))
    ELSE None

S_nixos == <<"@", "n", "i", "x", "o", "s">>

S_storage == <<"@", "s", "t", "o", "r", "a", "g", "e">>

S_dotfiles == <<"@", "d", "o", "t", "f", "i", "l", "e", "s">>

S_app == <<"a", "p", "p">>

S_plain == <<"p", "l", "a", "i", "n">>

S_unknown == <<"u", "n", "k", "n", "o", "w", "n">>

S_not_a_snapshot == <<"n", "o", "t", "-", "a", "-", "s", "n", "a", "p", "s", "h", "o", "t">>

prefixes == <<S_nixos \o <<"-">>, S_storage \o <<"-">>, S_dotfiles \o <<"-">>>>

RECURSIVE parse_from(_, _)
parse_from(name, i) ==
    IF i > Len(prefixes) THEN None
    ELSE IF strip_prefix(name, prefixes[i]) # None
         THEN parse_i64(strip_prefix(name, prefixes[i])[1])
         ELSE parse_from(name, i + 1)

parse_timestamp_from_name(name) == parse_from(name, 1)

\* format!("{}-{}", subvol_name, ts)
snap_name_of(subvol_name, t) == subvol_name \o <<"-">> \o to_string(t)

\* Utc.timestamp_opt(ts, 0).single(): None outside chrono's range
timestamp_opt(t) ==
    IF t > MaxChronoSecs \/ t < -MaxChronoSecs THEN None ELSE Some(t)

\* Option<DateTime> >= Some(cutoff): None orders before every Some
opt_ge_some(o, c) == o # None /\ o[1] >= c

---------------------------------------------------------------------------
(* The snapshot directory and the source subvolumes *)

\* A directory entry: kind is "subvol" (Subvolume::get succeeds), "dir" (a
\* plain directory) or "file"; mtime is its modification time; ignore is the
\* state of the .ignore file inside it: "none", "empty" or "data".
Entry(k, m, i) == [kind |-> k, mtime |-> m, ignore |-> i]

\* The entries a snapshot directory may hold when the program starts: earlier
\* snapshots (some written to since, some of a source that carries its own
\* .ignore), another tool's subvolume, a plain directory, a plain file.
InitCandidates ==
    { [name |-> snap_name_of(S_nixos, 10),    e |-> Entry("subvol", 10, "empty")],
      [name |-> snap_name_of(S_nixos, 20),    e |-> Entry("subvol", 12, "data")],
      [name |-> snap_name_of(S_storage, 15),  e |-> Entry("dir", 15, "none")],
      [name |-> snap_name_of(S_app, 10),      e |-> Entry("subvol", 18, "empty")],
      [name |-> S_not_a_snapshot,             e |-> Entry("subvol", 10, "none")],
      [name |-> snap_name_of(S_nixos, 100),   e |-> Entry("subvol", 20, "empty")],
      [name |-> snap_name_of(S_dotfiles, 5),  e |-> Entry("file", 5, "none")] }

\* The subvolume paths a Create may be given. file_name is Path::file_name().
Sources ==
    { [path |-> "/mnt/@nixos", file_name |-> Some(S_nixos), subvol |-> TRUE,
       mtime |-> 12, ignore |-> "none"],
      [path |-> "/mnt/app", file_name |-> Some(S_app), subvol |-> TRUE,
       mtime |-> 12, ignore |-> "data"],
      [path |-> "/mnt/plain", file_name |-> Some(S_plain), subvol |-> FALSE,
       mtime |-> 12, ignore |-> "none"],
      [path |-> "/srv/app", file_name |-> Some(S_app), subvol |-> TRUE,
       mtime |-> 12, ignore |-> "data"] }

Keeps == {0, LongKeep}

Without(f, name) == [n \in DOMAIN f \ {name} |-> f[n]]

With(f, name, e) == [n \in DOMAIN f \cup {name} |-> IF n = name THEN e ELSE f[n]]

SeqsUpTo(S, k) == UNION {[1..n -> S] : n \in 0..k}

Perms(S) ==
    {p \in [1..Cardinality(S) -> S] : \A i, j \in DOMAIN p : p[i] = p[j] => i = j}

Call(o, p, n, k) == [op |-> o, path |-> p, name |-> n, ok |-> k]

Ret(f, c, r) == [fs |-> f, calls |-> c, ret |-> r]

\* subvol.info(): whether it succeeded and the SubvolumeInfo it returned
InfoCall(n, k, v) == [op |-> "info", path |-> "", name |-> n, ok |-> k, info |-> v]

\* println!("{}: gen={}, otime={}", path, ..): the line's three values
Printed(n, g, o) == [op |-> "print", path |-> "", name |-> n, ok |-> TRUE, gen |-> g, otime |-> o]

\* The SubvolumeInfo values the Volume Store may return
Infos == {[generation |-> 7, otransid |-> 5], [generation |-> 9, otransid |-> 8]}

---------------------------------------------------------------------------
(* The per-item functions. The repository holds cleanup_snapshot twice,    *)
(* in main.rs (age from the entry's name) and in cleanup.rs (age from the  *)
(* entry's mtime); both are modelled and a Cleanup runs either.            *)

\* WalkDir::new(dir).max_depth(1) ... filter(is_dir && path != dir)
scan(f) == {n \in DOMAIN f : f[n].kind # "file"}

\* create_snapshot with the marker's error dropped
create_snapshot_swallow(f, sv, t, clock, snapOk, touchOk) ==
    LET subvol_name == IF sv.file_name = None THEN S_unknown ELSE sv.file_name[1]
        snap_name   == snap_name_of(subvol_name, t)
        get         == Call("get", sv.path, <<>>, sv.subvol)
        snapshot(k) == Call("snapshot", sv.path, snap_name, k)
        touch(k)    == Call("touch", sv.path, snap_name, k)
        copy        == Entry("subvol", sv.mtime, sv.ignore)
        marked      == IF sv.ignore = "none"
                       THEN Entry("subvol", clock, "empty")
                       ELSE copy
    IN  IF ~sv.subvol
        THEN Ret(f, <<get>>, "Err")
        ELSE IF snap_name \in DOMAIN f \/ ~snapOk
        THEN Ret(f, <<get, snapshot(FALSE)>>, "Err")
        ELSE IF ~touchOk
        THEN Ret(With(f, snap_name, copy), <<get, snapshot(TRUE), touch(FALSE)>>, "Ok")
        ELSE Ret(With(f, snap_name, marked), <<get, snapshot(TRUE), touch(TRUE)>>, "Ok")

\* create_snapshot(snap_dir, sv, ts); clock is the time the marker is touched.
\* A snapshot starts as a copy of its source: the root directory's mtime and
\* any .ignore in it. OpenOptions create(true).write(true) makes an empty
\* .ignore (which sets the directory's mtime) only where there is none.
create_snapshot(f, sv, t, clock, snapOk, touchOk) ==
    LET subvol_name == IF sv.file_name = None THEN S_unknown ELSE sv.file_name[1]
        snap_name   == snap_name_of(subvol_name, t)
        get         == Call("get", sv.path, <<>>, sv.subvol)
        snapshot(k) == Call("snapshot", sv.path, snap_name, k)
        touch(k)    == Call("touch", sv.path, snap_name, k)
        copy        == Entry("subvol", sv.mtime, sv.ignore)
        marked      == IF sv.ignore = "none"
                       THEN Entry("subvol", clock, "empty")
                       ELSE copy
    IN  IF ~sv.subvol
        THEN Ret(f, <<get>>, "Err")
        ELSE IF snap_name \in DOMAIN f \/ ~snapOk
        THEN Ret(f, <<get, snapshot(FALSE)>>, "Err")
        ELSE IF ~touchOk
        THEN Ret(With(f, snap_name, copy), <<get, snapshot(TRUE), touch(FALSE)>>, "Err")
        ELSE Ret(With(f, snap_name, marked), <<get, snapshot(TRUE), touch(TRUE)>>, "Ok")

\* delete_snapshot(s)
delete_snapshot(f, s, delOk) ==
    LET isSub == s \in DOMAIN f /\ f[s].kind = "subvol"
    IN  IF ~isSub
        THEN Ret(f, <<Call("get", "", s, FALSE)>>, "Err")
        ELSE IF ~delOk
        THEN Ret(f, <<Call("get", "", s, TRUE), Call("delete", "", s, FALSE)>>, "Err")
        ELSE Ret(Without(f, s), <<Call("get", "", s, TRUE), Call("delete", "", s, TRUE)>>, "Ok")

\* cleanup_snapshot with the delete error logged and dropped
cleanup_snapshot_main_swallow(f, name, c, delOk) ==
    LET t == parse_timestamp_from_name(name)
    IN  IF t = None
        THEN Ret(f, <<>>, "Ok")
        ELSE IF opt_ge_some(timestamp_opt(t[1]), c)
        THEN Ret(f, <<>>, "Ok")
        ELSE IF f[name].kind # "subvol"
        THEN Ret(f, <<Call("get", "", name, FALSE)>>, "Ok")
        ELSE IF ~delOk
        THEN Ret(f, <<Call("get", "", name, TRUE), Call("delete", "", name, FALSE)>>, "Ok")
        ELSE Ret(Without(f, name),
                 <<Call("get", "", name, TRUE), Call("delete", "", name, TRUE)>>, "Ok")

\* list_snapshot with `?` on Subvolume::get
list_snapshot_strict(f, name, infoOk, inf) ==
    IF f[name].kind # "subvol"
    THEN Ret(f, <<Call("get", "", name, FALSE)>>, "Err")
    ELSE IF ~infoOk
    THEN Ret(f, <<Call("get", "", name, TRUE), InfoCall(name, FALSE, None)>>, "Err")
    ELSE Ret(f, <<Call("get", "", name, TRUE), InfoCall(name, TRUE, Some(inf)),
                  Printed(name, inf.generation, inf.otransid)>>, "Ok")

\* list_snapshot(entry)
list_snapshot(f, name, infoOk, inf) ==
    IF f[name].kind # "subvol"
    THEN Ret(f, <<Call("get", "", name, FALSE)>>, "Ok")
    ELSE IF ~infoOk
    THEN Ret(f, <<Call("get", "", name, TRUE), InfoCall(name, FALSE, None)>>, "Err")
    ELSE Ret(f, <<Call("get", "", name, TRUE), InfoCall(name, TRUE, Some(inf)),
                  Printed(name, inf.generation, inf.otransid)>>, "Ok")

\* main.rs cleanup_snapshot(entry, cutoff)
cleanup_snapshot_main(f, name, c, delOk) ==
    LET t == parse_timestamp_from_name(name)
    IN  IF t = None
        THEN Ret(f, <<>>, "Ok")
        ELSE IF opt_ge_some(timestamp_opt(t[1]), c)
        THEN Ret(f, <<>>, "Ok")
        ELSE IF f[name].kind # "subvol"
        THEN Ret(f, <<Call("get", "", name, FALSE)>>, "Ok")
        ELSE IF ~delOk
        THEN Ret(f, <<Call("get", "", name, TRUE), Call("delete", "", name, FALSE)>>, "Err")
        ELSE Ret(Without(f, name),
                 <<Call("get", "", name, TRUE), Call("delete", "", name, TRUE)>>, "Ok")

\* cleanup.rs cleanup_snapshot(entry, cutoff)
cleanup_snapshot_module(f, name, c, metaOk, delOk) ==
    IF ~metaOk
    THEN Ret(f, <<>>, "Err")
    ELSE IF f[name].mtime >= c
    THEN Ret(f, <<>>, "Ok")
    ELSE IF f[name].kind # "subvol"
    THEN Ret(f, <<Call("get", "", name, FALSE)>>, "Ok")
    ELSE IF ~delOk
    THEN Ret(f, <<Call("get", "", name, TRUE), Call("delete", "", name, FALSE)>>, "Err")
    ELSE Ret(Without(f, name),
             <<Call("get", "", name, TRUE), Call("delete", "", name, TRUE)>>, "Ok")

---------------------------------------------------------------------------
(* The state machine *)

Init ==
    /\ \E S \in SUBSET InitCandidates :
          /\ Cardinality(S) <= MaxEntries
          /\ fs = [n \in {x.name : x \in S} |-> (CHOOSE x \in S : x.name = n).e]
    /\ now = StartNow
    /\ pc = "idle"
    /\ cmd = "none"
    /\ impl = "none"
    /\ args = <<>>
    /\ idx = 0
    /\ ts = 0
    /\ cutoff = 0
    /\ result = "none"
    /\ calls = <<>>
    /\ scanned = None
    /\ sweep = None

\* execute begins: the loop is entered, or is empty, or bail!() returned
Begin(c, list, bail) ==
    /\ cmd' = c
    /\ args' = list
    /\ idx' = 1
    /\ calls' = <<>>
    /\ pc' = IF list = <<>> THEN "done" ELSE "run"
    /\ result' = IF list = <<>> THEN (IF bail THEN "err" ELSE "ok") ELSE "none"

\* the loop without `?`: an item's error does not end it
Loop_continue(r) ==
    /\ fs' = r.fs
    /\ calls' = calls \o r.calls
    /\ idx' = idx + 1
    /\ pc' = IF idx = Len(args) THEN "done" ELSE "run"
    /\ result' = IF idx = Len(args) THEN "ok" ELSE "none"

\* the loop over a directory stream that loses the entry after a deleted one
Loop_skip(r) ==
    /\ fs' = r.fs
    /\ calls' = calls \o r.calls
    /\ IF r.ret = "Err"
       THEN pc' = "done" /\ result' = "err" /\ idx' = idx
       ELSE /\ idx' = IF r.fs # fs THEN idx + 2 ELSE idx + 1
            /\ pc' = IF idx' > Len(args) THEN "done" ELSE "run"
            /\ result' = IF idx' > Len(args) THEN "ok" ELSE "none"

\* one turn of `for x in list { f(x)?; }` ... `Ok(())`
Loop(r) ==
    /\ fs' = r.fs
    /\ calls' = calls \o r.calls
    /\ IF r.ret = "Err"
       THEN pc' = "done" /\ result' = "err" /\ idx' = idx
       ELSE /\ idx' = idx + 1
            /\ pc' = IF idx = Len(args) THEN "done" ELSE "run"
            /\ result' = IF idx = Len(args) THEN "ok" ELSE "none"

\* time passes, also while a subcommand runs
Tick ==
    /\ now < MaxNow
    /\ now' = now + 1
    /\ UNCHANGED <<fs, pc, cmd, impl, args, idx, ts, cutoff, result, calls, scanned, sweep>>

\* CreateStep with the timestamp taken anew for each source
CreateStep_ts_per_source ==
    /\ pc = "run" /\ cmd = "create"
    /\ \E snapOk, touchOk \in BOOLEAN :
          Loop(create_snapshot(fs, args[idx], now, now, snapOk, touchOk))
    /\ UNCHANGED <<now, cmd, impl, args, ts, cutoff, scanned, sweep>>

\* Create::execute up to the loop
CreateStart ==
    /\ pc = "idle"
    /\ \E list \in SeqsUpTo(Sources, MaxArgs) :
          /\ Cardinality(DOMAIN fs) + Len(list) <= MaxEntries
          /\ Begin("create", list, TRUE)
    /\ ts' = now
    /\ sweep' = None
    /\ UNCHANGED <<fs, now, impl, cutoff, scanned>>

CreateStep ==
    /\ pc = "run" /\ cmd = "create"
    /\ \E snapOk, touchOk \in BOOLEAN :
          Loop(create_snapshot(fs, args[idx], ts, now, snapOk, touchOk))
    /\ UNCHANGED <<now, cmd, impl, args, ts, cutoff, scanned, sweep>>

\* DeleteStart without the is_empty() check
DeleteStart_no_check ==
    /\ pc = "idle"
    /\ \E list \in SeqsUpTo(DOMAIN fs, MaxArgs) : Begin("delete", list, FALSE)
    /\ sweep' = None
    /\ UNCHANGED <<fs, now, impl, ts, cutoff, scanned>>

\* Delete::execute up to the loop
DeleteStart ==
    /\ pc = "idle"
    /\ \E list \in SeqsUpTo(DOMAIN fs, MaxArgs) : Begin("delete", list, TRUE)
    /\ sweep' = None
    /\ UNCHANGED <<fs, now, impl, ts, cutoff, scanned>>

DeleteStep ==
    /\ pc = "run" /\ cmd = "delete"
    /\ \E delOk \in BOOLEAN : Loop(delete_snapshot(fs, args[idx], delOk))
    /\ UNCHANGED <<now, cmd, impl, args, ts, cutoff, scanned, sweep>>

\* List::execute up to the loop
ListStart ==
    /\ pc = "idle"
    /\ \E order \in Perms(scan(fs)) : Begin("list", order, FALSE)
    /\ scanned' = Some(fs)
    /\ sweep' = None
    /\ UNCHANGED <<fs, now, impl, ts, cutoff>>

ListStep ==
    /\ pc = "run" /\ cmd = "list"
    /\ \E infoOk \in BOOLEAN, inf \in Infos :
          Loop(list_snapshot(fs, args[idx], infoOk, inf))
    /\ UNCHANGED <<now, cmd, impl, args, ts, cutoff, scanned, sweep>>

\* Cleanup::execute (cleanup.rs) or Commands::Cleanup (main.rs) up to the loop
CleanupStart ==
    /\ pc = "idle"
    /\ \E keep \in Keeps, im \in {"main", "module"}, order \in Perms(scan(fs)) :
          /\ Begin("cleanup", order, FALSE)
          /\ impl' = im
          /\ cutoff' = now - keep
          /\ sweep' = IF sweep # None /\ sweep[1].cutoff = now - keep /\ sweep[1].impl = im
                      THEN sweep ELSE None
    /\ scanned' = Some(fs)
    /\ UNCHANGED <<fs, now, ts>>

CleanupStep ==
    /\ pc = "run" /\ cmd = "cleanup"
    /\ \E metaOk, delOk \in BOOLEAN :
          Loop(IF impl = "main"
               THEN cleanup_snapshot_main(fs, args[idx], cutoff, delOk)
               ELSE cleanup_snapshot_module(fs, args[idx], cutoff, metaOk, delOk))
    /\ UNCHANGED <<now, cmd, impl, args, ts, cutoff, scanned, sweep>>

Reset ==
    /\ pc' = "idle"
    /\ cmd' = "none"
    /\ impl' = "none"
    /\ args' = <<>>
    /\ idx' = 0
    /\ ts' = 0
    /\ cutoff' = 0
    /\ result' = "none"
    /\ calls' = <<>>
    /\ scanned' = None

\* the process is killed in the middle of a sweep
Interrupt ==
    /\ pc = "run" /\ cmd = "cleanup"
    /\ sweep' = IF sweep # None THEN sweep
                ELSE Some([base |-> scanned[1], cutoff |-> cutoff, impl |-> impl])
    /\ Reset
    /\ UNCHANGED <<fs, now>>

\* the process exits
Exit ==
    /\ pc = "done"
    /\ sweep' = IF cmd = "cleanup" THEN sweep ELSE None
    /\ Reset
    /\ UNCHANGED <<fs, now>>

Next ==
    \/ Tick
    \/ CreateStart
    \/ CreateStep
    \/ DeleteStart
    \/ DeleteStep
    \/ ListStart
    \/ ListStep
    \/ CleanupStart
    \/ CleanupStep
    \/ Interrupt
    \/ Exit

Spec == Init /\ [][Next]_vars

---------------------------------------------------------------------------
(* Vocabulary of the properties *)

\* The documented entry-name format "<source_name>-<epoch_seconds>", read
\* back by splitting at the last '-': Some(<<source_name, instant>>) or None.
LastDash(s) ==
    IF \E i \in 1..Len(s) : s[i] = "-"
    THEN CHOOSE i \in 1..Len(s) : s[i] = "-" /\ \A j \in (i + 1)..Len(s) : s[j] # "-"
    ELSE 0

decode(s) ==
    IF LastDash(s) = 0 THEN None
    ELSE IF parse_i64(SubSeq(s, LastDash(s) + 1, Len(s))) = None THEN None
    ELSE Some(<<SubSeq(s, 1, LastDash(s) - 1),
                parse_i64(SubSeq(s, LastDash(s) + 1, Len(s)))[1]>>)

Instant(s) == decode(s)[1][2]

CallsOf(o) == {i \in 1..Len(calls) : calls[i].op = o}

OkCalls(o) == {i \in CallsOf(o) : calls[i].ok}

FailedCalls(o) == {i \in CallsOf(o) : ~calls[i].ok}

\* the entries this Cleanup has deleted so far
Swept == DOMAIN scanned[1] \ DOMAIN fs

\* what a sweep of directory f that nothing stops leaves behind
RECURSIVE SweepFrom(_, _, _, _, _)
SweepFrom(f, order, i, c, im) ==
    IF i > Len(order) THEN f
    ELSE SweepFrom(IF im = "main"
                   THEN cleanup_snapshot_main(f, order[i], c, TRUE).fs
                   ELSE cleanup_snapshot_module(f, order[i], c, TRUE, TRUE).fs,
                   order, i + 1, c, im)

FullSweep(f, c, im) == SweepFrom(f, CHOOSE p \in Perms(scan(f)) : TRUE, 1, c, im)

---------------------------------------------------------------------------
(* Properties *)

\* C1: Cleanup never deletes an entry whose decoded creation instant (the
\* epoch-seconds suffix of its name) is greater than or equal to the cutoff.
C1_NoYoungEntryDeleted ==
    cmd = "cleanup" =>
        \A n \in Swept : ~(decode(n) # None /\ Instant(n) >= cutoff)

\* C2: Cleanup never deletes an entry whose name fails decode, nor one for
\* which Volume Store get fails: such entries still exist, unchanged.
C2_UnrecognizedNeverDeleted ==
    cmd = "cleanup" =>
        \A n \in DOMAIN scanned[1] :
            (decode(n) = None \/ scanned[1][n].kind # "subvol")
                => n \in DOMAIN fs /\ fs[n] = scanned[1][n]

C4_EmptyDeleteFailsFast ==
    [][(cmd' = "delete" /\ args' = <<>>)
         => (pc' = "done" /\ result' = "err" /\ calls' = <<>> /\ fs' = fs)]_vars

\* C4's case: Delete was run with no target on a directory that holds entries.
C4_Witness ==
    cmd = "delete" /\ args = <<>> /\ pc = "done" /\ DOMAIN fs # {}

\* C5: when a Cleanup run completes, every directory whose name decodes to an
\* instant before the cutoff and which is a genuine snapshot has been
\* deleted, whatever its source_name.
C5_EveryOldSnapshotDeleted ==
    (cmd = "cleanup" /\ pc = "done" /\ result = "ok") =>
        \A n \in scan(scanned[1]) :
            (decode(n) # None /\ Instant(n) < cutoff /\ scanned[1][n].kind = "subvol")
                => n \notin DOMAIN fs

\* The name create_snapshot derives from a source path.
SourceName(sv) == IF sv.file_name = None THEN S_unknown ELSE sv.file_name[1]

\* C6: decoding the name Create gives a snapshot, "<source_name>-<ts>",
\* returns the source name and the instant it was encoded from.
C6_DecodeInvertsEncode ==
    cmd = "create" =>
        \A i \in OkCalls("snapshot") :
            /\ parse_timestamp_from_name(calls[i].name) = Some(ts)
            /\ \E sv \in Sources :
                  /\ sv.path = calls[i].path
                  /\ strip_prefix(calls[i].name, SourceName(sv) \o <<"-">>) = Some(to_string(ts))

Suffix(s) == SubSeq(s, LastDash(s) + 1, Len(s))

\* C7: every entry one Create invocation makes carries the same epoch-seconds
\* suffix, the timestamp captured before the loop, however long the
\* snapshot calls take.
C7_SharedTimestamp ==
    cmd = "create" =>
        \A i, j \in OkCalls("snapshot") :
            /\ Suffix(calls[i].name) = Suffix(calls[j].name)
            /\ Suffix(calls[i].name) = to_string(ts)

\* C7's case: two snapshots made by one invocation while the clock moved on.
C7_Witness ==
    /\ cmd = "create" /\ now > ts
    /\ \E i, j \in OkCalls("snapshot") : calls[i].name # calls[j].name

AnyFailed == {i \in 1..Len(calls) : ~calls[i].ok}

GetCalls == SelectSeq(calls, LAMBDA c : c.op = "get")

\* C8: a failing get, snapshot or marker creation ends Create with an error;
\* no call is made for a later source, and the snapshots made before stay.
C8_CreateAbortsOnFailure ==
    (cmd = "create" /\ AnyFailed # {}) =>
        /\ pc = "done" /\ result = "err"
        /\ AnyFailed = {Len(calls)}
        /\ Len(GetCalls) = idx
        /\ \A k \in 1..idx : GetCalls[k].path = args[k].path
        /\ \A i \in CallsOf("snapshot") \cup CallsOf("touch") :
              calls[i - 1].path = calls[i].path
        /\ \A i \in OkCalls("snapshot") : calls[i].name \in DOMAIN fs

\* C8's case: a source fails after an earlier one was snapshotted, with a
\* later source still in the list.
C8_Witness ==
    /\ cmd = "create" /\ AnyFailed # {} /\ 1 < idx /\ idx < Len(args)
    /\ OkCalls("touch") # {}

\* C9: a failing get or delete ends Delete with an error; no call is made
\* for a later target, and the targets deleted before stay deleted.
C9_DeleteAbortsOnFailure ==
    (cmd = "delete" /\ args # <<>> /\ AnyFailed # {}) =>
        /\ pc = "done" /\ result = "err"
        /\ AnyFailed = {Len(calls)}
        /\ Len(GetCalls) = idx
        /\ \A k \in 1..idx : GetCalls[k].name = args[k]
        /\ \A i \in CallsOf("delete") : calls[i - 1] = Call("get", "", calls[i].name, TRUE)
        /\ \A i \in OkCalls("delete") : calls[i].name \notin DOMAIN fs

\* C9's case: the delete of a target fails after an earlier target was
\* deleted, with a later, deletable target still in the list.
C9_Witness ==
    /\ cmd = "delete" /\ FailedCalls("delete") # {} /\ OkCalls("delete") # {}
    /\ \E j \in (idx + 1)..Len(args) :
          args[j] \in DOMAIN fs /\ fs[args[j]].kind = "subvol"

\* the directory the sweep in progress, or the interrupted one it resumes,
\* started from
SweepBase == IF sweep # None THEN sweep[1].base ELSE scanned[1]

\* C10: an interrupted sweep leaves each entry deleted or untouched; a later
\* Cleanup with the same cutoff that completes leaves what an uninterrupted
\* sweep would have; Cleanup run again on that deletes nothing.
C10_SweepResumes ==
    /\ sweep # None =>
          \A n \in DOMAIN fs : n \in DOMAIN sweep[1].base /\ fs[n] = sweep[1].base[n]
    /\ cmd = "cleanup" =>
          \A n \in DOMAIN fs : n \in DOMAIN scanned[1] /\ fs[n] = scanned[1][n]
    /\ (cmd = "cleanup" /\ pc = "done" /\ result = "ok") =>
          /\ fs = FullSweep(SweepBase, cutoff, impl)
          /\ FullSweep(fs, cutoff, impl) = fs

\* C10's case: a sweep was interrupted after it had deleted an entry, and the
\* Cleanup that followed with the same cutoff deleted the rest and completed.
C10_Witness ==
    /\ cmd = "cleanup" /\ pc = "done" /\ result = "ok"
    /\ sweep # None /\ sweep[1].base # scanned[1]
    /\ OkCalls("delete") # {}

PrintsOf(n) == {i \in CallsOf("print") : calls[i].name = n}

\* C11 as stated: List emits exactly one record, with the generation and
\* origin transaction id that info returned, for each child directory on
\* which get succeeds, none and no error where get fails, and never mutates.
C11_ListOneRecordPerSnapshot ==
    (cmd = "list" /\ pc = "done") =>
        /\ result = "ok"
        /\ \A n \in scan(scanned[1]) :
              Cardinality(PrintsOf(n)) = IF scanned[1][n].kind = "subvol" THEN 1 ELSE 0
        /\ \A i \in CallsOf("print") :
              /\ calls[i - 1].op = "info" /\ calls[i - 1].name = calls[i].name
              /\ calls[i].gen = calls[i - 1].info[1].generation
              /\ calls[i].otime = calls[i - 1].info[1].otransid
        /\ fs = scanned[1]
        /\ CallsOf("snapshot") \cup CallsOf("delete") \cup CallsOf("touch") = {}

\* C11 as amended: List emits exactly one record, with the values info
\* returned, for each child directory on which get and info succeed, none
\* and no error where get fails; a failing info ends List with that error,
\* the records of the entries before it emitted and no later entry looked
\* at; List never mutates.
C11_ListRecords ==
    cmd = "list" =>
        /\ fs = scanned[1]
        /\ CallsOf("snapshot") \cup CallsOf("delete") \cup CallsOf("touch") = {}
        /\ \A i \in CallsOf("print") :
              /\ calls[i - 1].op = "info" /\ calls[i - 1].ok
              /\ calls[i - 1].name = calls[i].name
              /\ calls[i].gen = calls[i - 1].info[1].generation
              /\ calls[i].otime = calls[i - 1].info[1].otransid
        /\ \A k \in 1..Len(args) :
              Cardinality(PrintsOf(args[k])) =
                  IF k < idx /\ fs[args[k]].kind = "subvol" THEN 1 ELSE 0
        /\ FailedCalls("info") \subseteq {Len(calls)}
        /\ (result = "err") = (FailedCalls("info") # {})
        /\ result = "err" => pc = "done" /\ calls[Len(calls)].name = args[idx]
        /\ result = "ok" => pc = "done" /\ idx = Len(args) + 1
        /\ \A i \in FailedCalls("get") : i = Len(calls) \/ calls[i + 1].op = "get"

\* C11's case: List skipped a plain directory, printed a snapshot's record,
\* and stopped at a snapshot whose info failed.
C11_Witness ==
    /\ cmd = "list" /\ result = "err"
    /\ FailedCalls("get") # {} /\ CallsOf("print") # {}

\* C12: every snapshot Create has made holds an empty .ignore, also after a
\* failed marker creation and when the source holds a non-empty .ignore.
C12_EverySnapshotHasEmptyMarker ==
    cmd = "create" =>
        \A i \in OkCalls("snapshot") :
            calls[i].name \in DOMAIN fs => fs[calls[i].name].ignore = "empty"

\* C13: within one Create invocation no two snapshot calls target the same
\* destination path.
C13_DistinctDestinations ==
    cmd = "create" =>
        \A i, j \in CallsOf("snapshot") : calls[i].name = calls[j].name => i = j

====
